---- MODULE Spec2Model ----
(***************************************************************************)
(* Activity execution engine of serenity-go: the test actor's AttemptsTo   *)
(* loop, the failure modes, tasks, Ensure activities and the SerenityTest  *)
(* lifecycle (reporter and failure sink).                                  *)
(***************************************************************************)
EXTENDS Integers, Sequences, FiniteSets, TLC

(* ------------------------------ bounds -------------------------------- *)
\* longest argument list of one AttemptsTo call
MaxActs == 3
\* most sub-activities of one task
MaxSubs == 2
\* Shutdown calls of one test that reach the reporter
MaxShutdowns == 1
\* the largest answer of a Question
MaxAnswer == 3
\* longest ability list of an actor
MaxAbilities == 3
\* most arguments of one WhoCan call
MaxBatch == 2
\* the largest number among the values given to an expectation
MaxNum == 1
\* the longest string, slice or array given to an expectation
MaxLen == 2
\* the calls of ActorCalled each goroutine makes
MaxCalls == 2
\* the steps each goroutine reports
MaxSteps == 2
\* the calls each goroutine makes on the registry of package core
MaxOps == 2

(* ------------------------- program constants -------------------------- *)
FailFast == 0
ErrorButContinue == 1
Ignore == 2

StatusPassed == 0
StatusFailed == 1

Critical == FailFast
NonCritical == ErrorButContinue
Optional == Ignore

(* ------------------------------ errors -------------------------------- *)
\* An error value is the chain of its messages, outermost first; nil is the
\* empty chain.  fmt.Errorf("...: %w", err) puts one message in front.
Nil == <<>>
FmtErrorf(msg, err) == <<msg>> \o err

(* ----------------------------- activities ----------------------------- *)
\* An activity value: kind, the mode a custom implementation declares (read
\* for kind "custom" only) and the sub-activities of a task.
Do == [kind |-> "interaction", fm |-> FailFast, subs |-> <<>>]
That == [kind |-> "ensure", fm |-> FailFast, subs |-> <<>>]
TaskWhere(activities) == [kind |-> "task", fm |-> FailFast, subs |-> activities]
Custom(mode) == [kind |-> "custom", fm |-> mode, subs |-> <<>>]

\* FailureMode is an int type: the FailureMode() of a user-written activity
\* may return an int that is none of the three constants
Undeclared == Ignore + 1
\* the modes a user-written activity declares (Do covers FailFast)
CustomModes == {ErrorButContinue, Ignore, Undeclared}

SeqUpTo(S, n) == UNION {[1..k -> S] : k \in 0..n}

\* activities that are not tasks
Leaves == {Do, That} \cup {Custom(m) : m \in CustomModes}
\* tasks of any leaves
Tasks == {TaskWhere(s) : s \in SeqUpTo(Leaves, MaxSubs)}
\* the argument lists of AttemptsTo
ActivityLists == SeqUpTo(Leaves, MaxActs)
TaskLists == {<<t>> : t \in Tasks}

\* a faulty variant of EnsureFailureMode
EnsureFailureModeCritical(a) == Critical
\* another faulty variant of EnsureFailureMode
EnsureFailureModeOptional(a) == Optional
EnsureFailureMode(a) == NonCritical
TaskFailureMode(a) == FailFast
InteractionFailureMode(a) == FailFast

\* activity.FailureMode()
FailureMode(a) ==
    CASE a.kind = "task" -> TaskFailureMode(a)
      [] a.kind = "interaction" -> InteractionFailureMode(a)
      [] a.kind = "ensure" -> EnsureFailureMode(a)
      [] OTHER -> a.fm

(* ----------------------- what an activity does ------------------------ *)
\* How the code outside the engine behaves when one leaf is performed:
\* the perform function of an interaction or a custom activity returns nil
\* ("ok") or an error ("err"); the Question of an Ensure fails ("qerr") or
\* answers, and then its Expectation accepts ("ok") or rejects ("everr").
LeafOutcomes(a) == IF a.kind = "ensure" THEN {"ok", "qerr", "everr"} ELSE {"ok", "err"}
AllOutcomes == {"ok", "err", "qerr", "everr"}

\* the outcomes of performing activity a: one per sub-activity of a task
Oracles(a) ==
    IF a.kind = "task"
    THEN {o \in [1..Len(a.subs) -> AllOutcomes] :
            \A j \in 1..Len(a.subs) : o[j] \in LeafOutcomes(a.subs[j])}
    ELSE {<<x>> : x \in LeafOutcomes(a)}

\* one entry of the trace of a call: pos is the position in the argument
\* list, sub the position inside the task at pos (0: the activity itself),
\* val the error or the mode the event carries
Event(ev, pos, sub, val) == [ev |-> ev, pos |-> pos, sub |-> sub, val |-> val]

\* interaction.PerformAs and the PerformAs of a custom activity
InteractionPerformAs(out) ==
    [err |-> IF out = "ok" THEN Nil ELSE <<"activity error">>, events |-> <<>>]

\* The answers a Question gives are 0..MaxAnswer; 0 is the zero value of T
Answers == 0..MaxAnswer
QuestionError == <<"question error">>
ExpectationError == <<"expectation error">>
\* what question.AnsweredBy(actor) returns: (actual, err)
QuestionResults == [actual : Answers, err : {Nil, QuestionError}]
\* what expectation.Evaluate returns, for each value it can be given
Expectations == [Answers -> {Nil, ExpectationError}]

\* a faulty variant of EnsurePerformAs: the expectation is evaluated on
\* whatever AnsweredBy returned, the question's error is looked at afterwards
EnsureEvaluatesAnyway(q, e, pos, sub) ==
    [err |-> IF q.err # Nil
             THEN FmtErrorf("failed to answer question", q.err)
             ELSE IF e[q.actual] # Nil
             THEN FmtErrorf("assertion failed", e[q.actual])
             ELSE Nil,
     events |-> <<Event("AnsweredBy", pos, sub, q),
                  Event("Evaluate", pos, sub,
                        [actual |-> q.actual, err |-> e[q.actual]])>>]
\* EnsureActivity.PerformAs, the question returning q and the expectation
\* behaving as e.  The AnsweredBy event carries what the question returned,
\* the Evaluate event the value Evaluate was given and what it returned.
EnsurePerformAs(q, e, pos, sub) ==
    LET asked == <<Event("AnsweredBy", pos, sub, q)>>
    IN IF q.err # Nil
       THEN [err |-> FmtErrorf("failed to answer question", q.err),
             events |-> asked]
       ELSE LET evaluateErr == e[q.actual]
                evaluated == <<Event("Evaluate", pos, sub,
                                     [actual |-> q.actual, err |-> evaluateErr])>>
            IN IF evaluateErr # Nil
               THEN [err |-> FmtErrorf("assertion failed", evaluateErr),
                     events |-> asked \o evaluated]
               ELSE [err |-> Nil, events |-> asked \o evaluated]

\* the question result and the expectation behind an outcome of an Ensure
QuestionOf(out) ==
    [actual |-> 0, err |-> IF out = "qerr" THEN QuestionError ELSE Nil]
ExpectationOf(out) ==
    [v \in Answers |-> IF out = "everr" THEN ExpectationError ELSE Nil]

LeafPerformAs(a, out, pos, sub) ==
    IF a.kind = "ensure"
    THEN EnsurePerformAs(QuestionOf(out), ExpectationOf(out), pos, sub)
    ELSE InteractionPerformAs(out)

\* a faulty variant of TaskContinues
TaskContinuesByMode(a, err) == err = Nil \/ FailureMode(a) # FailFast
\* whether the loop of a task goes on after sub-activity a returned err
TaskContinues(a, err) == err = Nil

\* task.PerformAs from sub-activity j on
RECURSIVE TaskLoop(_, _, _, _)
TaskLoop(subs, o, pos, j) ==
    IF j > Len(subs)
    THEN [err |-> Nil, events |-> <<>>]
    ELSE LET r == LeafPerformAs(subs[j], o[j], pos, j)
             here == <<Event("PerformAs", pos, j, Nil)>> \o r.events
                       \o <<Event("Return", pos, j, r.err)>>
         IN IF TaskContinues(subs[j], r.err)
            THEN LET rest == TaskLoop(subs, o, pos, j + 1)
                 IN [err |-> rest.err, events |-> here \o rest.events]
            ELSE [err |-> FmtErrorf("task failed during activity", r.err),
                  events |-> here]

TaskPerformAs(a, o, pos) == TaskLoop(a.subs, o, pos, 1)

\* activity.PerformAs(ta) for the activity at position pos
PerformAs(a, o, pos) ==
    IF a.kind = "task"
    THEN TaskPerformAs(a, o, pos)
    ELSE LeafPerformAs(a, o[1], pos, 0)

(* ------------------------------ abilities ----------------------------- *)
\* A concrete Go type: the import path of its package, the name of the
\* package and the name of the type.  Two packages named api, and a third.
RestClient == [path |-> "example.com/rest/api", pkg |-> "api", name |-> "Client"]
GrpcClient == [path |-> "example.com/grpc/api", pkg |-> "api", name |-> "Client"]
DbConn == [path |-> "example.com/db", pkg |-> "db", name |-> "Conn"]

\* an ability value: its concrete type and which instance of the type it is
Ability(type, id) == [type |-> type, id |-> id]
\* the ability values of the model: two instances of one type included
AbilityValues ==
    {Ability(RestClient, 1), Ability(RestClient, 2), Ability(GrpcClient, 1),
     Ability(DbConn, 1)}
\* the nil Ability
NilAbility == Ability([path |-> "", pkg |-> "", name |-> "<nil>"], 0)

\* fmt.Sprintf("%T", v): the package name and the type name, separated by a
\* dot; the import path is not printed
SprintfT(v) == <<v.type.pkg, ".", v.type.name>>

\* a faulty variant of abilityMatchesType
abilityMatchesNever(ability, abilityType) == FALSE
abilityMatchesType(ability, abilityType) ==
    SprintfT(ability) = SprintfT(abilityType)

MissingAbilityError == <<"actor does not have the required ability">>

\* for _, ability := range list, from position k on
RECURSIVE AbilityScan(_, _, _)
AbilityScan(list, abilityType, k) ==
    IF k > Len(list)
    THEN [ability |-> NilAbility, err |-> MissingAbilityError]
    ELSE IF abilityMatchesType(list[k], abilityType)
    THEN [ability |-> list[k], err |-> Nil]
    ELSE AbilityScan(list, abilityType, k + 1)

\* a faulty variant of AppendAbilities
PrependAbilities(list, batch) == batch \o list
\* append(ta.abilities, abilities...)
AppendAbilities(list, batch) == list \o batch

(* ------------------------------- state -------------------------------- *)
VARIABLES
    pc,          \* where the test goroutine is: "idle" (between calls),
                 \* "looping" (inside AttemptsTo), "returning" (AttemptsTo
                 \* is returning), "unwinding" (FailNow ended the goroutine),
                 \* "exited" (only deferred calls still run)
    activities,  \* the argument list of the AttemptsTo call in progress
    idx,         \* the position of the last activity the loop took
    trace,       \* what the call in progress did, in order
    failed,      \* the sink: what testContext.Failed() returns
    hasReporter, \* whether the test was built with a reporter
    reported,    \* OnTestStart / OnTestFinish as the reporter received them
    reportable,  \* history: some performed activity declaring FailFast or
                 \* ErrorButContinue has returned an error
    abilities,   \* the actor's ability list (ta.abilities)
    goroutines,  \* where each goroutine that shares the actor is in its call
                 \* of WhoCan or AbilityTo
    mutex,       \* ta.mutex: whether a writer holds it, how many readers do
    boundaries,  \* history: the ability list as it was before the first
                 \* WhoCan call and on the return of every WhoCan call
    call,        \* the last direct call of a function or method other than
                 \* AttemptsTo: its name and arguments
    returned,    \* what that call returned
    testName,    \* st.testName: the name the sink gave at construction
    stActors,    \* st.actors: the actor of each name, NoActor where the map
                 \* has no entry
    stMutex,     \* st.mutex: whether a writer holds it, how many readers do
    stCreated,   \* history: how many testActor objects ActorCalled created
    handedOut,   \* history: the (name, actor) pairs ActorCalled returned
    callers,     \* where each goroutine is in its call of st.ActorCalled
    indentLevel, \* cr.indentLevel of the ConsoleReporter
    activeSteps, \* cr.activeSteps: the keys of the map
    reporting,   \* where each goroutine is in the step it reports
    coreActors,  \* the registry of package core (var actors): the actor of
                 \* each name, a pointer, 0 where the map has no entry
    actorsMutex, \* actorsMutex of package core
    coreHeap,    \* the actor objects core.NewActor made for the registry, in
                 \* the order of their making; a pointer is a place in it
    coreFirst,   \* history: for each name, the actor returned by the first
                 \* ActorCalled of the name since the name was last
                 \* forgotten (0: none yet)
    registering  \* where each goroutine is in its call on the registry

\* the state of the AttemptsTo loop and of Shutdown
engine == <<pc, activities, idx, trace, failed, hasReporter, reported,
            reportable>>

\* the state of the calls made from several goroutines at once
locking == <<goroutines, mutex, boundaries>>

\* the state of the objects apart from the test actor
\* the state of the serenityTest
managerState == <<testName, stActors, stMutex, stCreated, handedOut, callers>>
\* the state of the ConsoleReporter
consoleState == <<indentLevel, activeSteps, reporting>>

\* the state of the registry of package core
registryState == <<coreActors, actorsMutex, coreHeap, coreFirst, registering>>

apart == <<managerState, consoleState, registryState>>

outside == <<abilities, call, returned, goroutines, mutex, boundaries, apart>>

vars == <<pc, activities, idx, trace, failed, hasReporter, reported,
          reportable, abilities, call, returned, goroutines, mutex, boundaries,
          apart>>

NoCall == [op |-> "none"]

\* the goroutines that share the actor
Goroutines == {"g1", "g2", "g3"}
\* a goroutine that is in no call
Outside == [pc |-> "out", arg |-> <<>>, done |-> 0, seen |-> <<>>,
            ret |-> [ability |-> NilAbility, err |-> Nil]]

\* the names the sink may give for its test (t.Name())
TestNames == {"TestExample", "FailedTest"}

\* what the reporter is told of the test: OnTestStart(name), OnTestFinish(result)
TestEvent(ev, name, status, err) ==
    [ev |-> ev, name |-> name, status |-> status, err |-> err]

\* the names actors are asked for
ActorNames == {"alice", "bob"}
\* the values of a map lookup that finds nothing (nil, false)
NoActor == [name |-> "", id |-> 0]
\* a goroutine that is in no call of ActorCalled
NotCalling == [pc |-> "out", name |-> "", actor |-> NoActor, exists |-> FALSE,
               done |-> 0]

\* the goroutines that report steps to one ConsoleReporter
Reporters == {"g1", "g2"}

\* the goroutines that call the registry of package core
Registrants == {"g1", "g2"}

\* the objects apart from the test actor, as constructed
ApartInit ==
    /\ stActors = [n \in ActorNames |-> NoActor]
    /\ stMutex = [writer |-> FALSE, readers |-> 0]
    /\ stCreated = 0
    /\ handedOut = {}
    /\ callers = [g \in Goroutines |-> NotCalling]
    /\ indentLevel = 0
    /\ activeSteps = {}
    /\ reporting = [g \in Reporters |->
                      [pc |-> "out", description |-> "", level |-> 0,
                       added |-> <<0, "">>, removed |-> FALSE, done |-> 0]]
    /\ coreActors = [n \in ActorNames |-> 0]
    /\ actorsMutex = [writer |-> FALSE, readers |-> 0]
    /\ coreHeap = <<>>
    /\ coreFirst = [n \in ActorNames |-> 0]
    /\ registering = [g \in Registrants |->
                        [pc |-> "out", name |-> "", ret |-> 0, done |-> 0]]

\* NewSerenityTestWithReporter (reporter nil or not), on a sink that has not
\* failed
Init ==
    /\ testName = "TestExample"
    /\ ApartInit
    /\ hasReporter \in BOOLEAN
    /\ reported = IF hasReporter
                  THEN <<TestEvent("OnTestStart", testName, StatusPassed, Nil)>>
                  ELSE <<>>
    /\ pc = "idle"
    /\ activities = <<>>
    /\ idx = 0
    /\ trace = <<>>
    /\ failed = FALSE
    /\ reportable = FALSE
    /\ abilities = <<>>
    /\ goroutines = [g \in Goroutines |-> Outside]
    /\ mutex = [writer |-> FALSE, readers |-> 0]
    /\ boundaries = {<<>>}
    /\ call = NoCall
    /\ returned = Nil

(* ------------------------- testActor.AttemptsTo ----------------------- *)
\* a faulty variant of RangeNext
RangeSkips(i) == i + 2
\* for _, activity := range activities: the position after idx
RangeNext(i) == i + 1

\* the tracker of one activity: Start and Finish, when there is a reporter
TrackerStart(pos) ==
    IF hasReporter THEN <<Event("OnStepStart", pos, 0, Nil)>> ELSE <<>>
\* a faulty variant of TrackerFinish: a failed step is never finished
TrackerFinishOnSuccess(pos, err) ==
    IF hasReporter /\ err = Nil THEN <<Event("OnStepFinish", pos, 0, err)>> ELSE <<>>
TrackerFinish(pos, err) ==
    IF hasReporter THEN <<Event("OnStepFinish", pos, 0, err)>> ELSE <<>>

\* faulty variants of the error handling of the loop, which the properties
\* below must tell from HandleError
HandleErrorNoReturn(a, err, pos) ==
    IF err = Nil THEN [events |-> <<>>, stop |-> FALSE]
    ELSE [events |-> <<Event("FailureMode", pos, 0, FailureMode(a))>>
                     \o (IF FailureMode(a) \in {FailFast, ErrorButContinue}
                         THEN <<Event("Errorf", pos, 0, err)>>
                         ELSE <<Event("Logf", pos, 0, err)>>)
                     \o (IF FailureMode(a) = FailFast
                         THEN <<Event("FailNow", pos, 0, Nil)>> ELSE <<>>),
          stop |-> FALSE]
HandleErrorAllFatal(a, err, pos) ==
    IF err = Nil THEN [events |-> <<>>, stop |-> FALSE]
    ELSE IF FailureMode(a) = Ignore
    THEN [events |-> <<Event("FailureMode", pos, 0, FailureMode(a)),
                       Event("Logf", pos, 0, err)>>, stop |-> FALSE]
    ELSE [events |-> <<Event("FailureMode", pos, 0, FailureMode(a)),
                       Event("Errorf", pos, 0, err),
                       Event("FailNow", pos, 0, Nil)>>, stop |-> TRUE]
HandleErrorIgnoreReported(a, err, pos) ==
    IF err = Nil THEN [events |-> <<>>, stop |-> FALSE]
    ELSE [events |-> <<Event("FailureMode", pos, 0, FailureMode(a)),
                       Event("Errorf", pos, 0, err)>>
                     \o (IF FailureMode(a) = FailFast
                         THEN <<Event("FailNow", pos, 0, Nil)>> ELSE <<>>),
          stop |-> FailureMode(a) = FailFast]
HandleErrorInverted(a, err, pos) ==
    IF err # Nil THEN [events |-> <<>>, stop |-> FALSE]
    ELSE [events |-> <<Event("FailureMode", pos, 0, FailureMode(a)),
                       Event("Errorf", pos, 0, err)>>, stop |-> FALSE]
HandleErrorFailNowFirst(a, err, pos) ==
    IF err = Nil THEN [events |-> <<>>, stop |-> FALSE]
    ELSE IF FailureMode(a) = FailFast
    THEN [events |-> <<Event("FailureMode", pos, 0, FailureMode(a)),
                       Event("FailNow", pos, 0, Nil),
                       Event("Errorf", pos, 0, err)>>, stop |-> TRUE]
    ELSE IF FailureMode(a) = ErrorButContinue
    THEN [events |-> <<Event("FailureMode", pos, 0, FailureMode(a)),
                       Event("Errorf", pos, 0, err)>>, stop |-> FALSE]
    ELSE [events |-> <<Event("FailureMode", pos, 0, FailureMode(a)),
                       Event("Logf", pos, 0, err)>>, stop |-> FALSE]
HandleErrorSilentContinue(a, err, pos) ==
    IF err = Nil THEN [events |-> <<>>, stop |-> FALSE]
    ELSE IF FailureMode(a) = FailFast
    THEN [events |-> <<Event("FailureMode", pos, 0, FailureMode(a)),
                       Event("Errorf", pos, 0, err),
                       Event("FailNow", pos, 0, Nil)>>, stop |-> TRUE]
    ELSE [events |-> <<Event("FailureMode", pos, 0, FailureMode(a)),
                       Event("Logf", pos, 0, err)>>, stop |-> FALSE]

\* if err != nil { switch activity.FailureMode() ... }: the sink calls made
\* for the activity at pos, and whether the call returns at once
HandleError(a, err, pos) ==
    IF err = Nil
    THEN [events |-> <<>>, stop |-> FALSE]
    ELSE LET failureMode == FailureMode(a)
             consulted == <<Event("FailureMode", pos, 0, failureMode)>>
         IN CASE failureMode = FailFast ->
                   [events |-> consulted \o <<Event("Errorf", pos, 0, err),
                                              Event("FailNow", pos, 0, Nil)>>,
                    stop |-> TRUE]
              [] failureMode = ErrorButContinue ->
                   [events |-> consulted \o <<Event("Errorf", pos, 0, err)>>,
                    stop |-> FALSE]
              [] failureMode = Ignore ->
                   [events |-> consulted \o <<Event("Logf", pos, 0, err)>>,
                    stop |-> FALSE]
              [] OTHER ->
                   [events |-> consulted, stop |-> FALSE]

\* Errorf and FailNow mark the sink failed
MarksFailed(events) ==
    \E k \in 1..Len(events) : events[k].ev \in {"Errorf", "FailNow"}

CallsFailNow(events) ==
    \E k \in 1..Len(events) : events[k].ev = "FailNow"

\* the call of AttemptsTo with the argument list acts
Begin(acts) ==
    /\ pc = "idle"
    /\ activities' = acts
    /\ idx' = 0
    /\ trace' = <<>>
    /\ pc' = IF RangeNext(0) > Len(acts) THEN "returning" ELSE "looping"
    /\ UNCHANGED <<failed, hasReporter, reported, reportable>>
    /\ UNCHANGED outside

AttemptsTo == \E acts \in ActivityLists : Begin(acts)

AttemptsToTask == \E acts \in TaskLists : Begin(acts)

\* one iteration of the loop; goexit: FailNow ends the goroutine (testing.T)
\* or returns (a sink that only records)
Iterate ==
    /\ pc = "looping"
    /\ LET pos == RangeNext(idx)
           a == activities[pos]
       IN \E o \in Oracles(a), goexit \in BOOLEAN :
            LET r == PerformAs(a, o, pos)
                h == HandleError(a, r.err, pos)
            IN /\ trace' = trace \o TrackerStart(pos)
                             \o <<Event("PerformAs", pos, 0, Nil)>>
                             \o r.events
                             \o <<Event("Return", pos, 0, r.err)>>
                             \o TrackerFinish(pos, r.err)
                             \o h.events
               /\ idx' = pos
               /\ failed' = (failed \/ MarksFailed(h.events))
               /\ reportable' = (reportable \/
                    (r.err # Nil /\ FailureMode(a) \in {FailFast, ErrorButContinue}))
               /\ pc' = IF goexit /\ CallsFailNow(h.events)
                        THEN "unwinding"
                        ELSE IF h.stop
                        THEN "returning"
                        ELSE IF RangeNext(pos) > Len(activities)
                        THEN "returning"
                        ELSE "looping"
    /\ UNCHANGED <<activities, hasReporter, reported>>
    /\ UNCHANGED outside

\* the call is over: its frame is gone
Return ==
    /\ pc \in {"returning", "unwinding"}
    /\ pc' = IF pc = "returning" THEN "idle" ELSE "exited"
    /\ activities' = <<>>
    /\ idx' = 0
    /\ trace' = <<>>
    /\ UNCHANGED <<failed, hasReporter, reported, reportable>>
    /\ UNCHANGED outside

(* ------------------------ serenityTest.Shutdown ----------------------- *)
\* a faulty variant of ShutdownStatus
ShutdownAlwaysPassed(f) == StatusPassed
ShutdownStatus(f) == IF f THEN StatusFailed ELSE StatusPassed

\* a faulty variant of Shutdown: the end of the test is reported twice
ShutdownReportsTwice ==
    /\ pc \in {"idle", "exited"}
    /\ Len(reported) <= MaxShutdowns
    /\ LET finish == TestEvent("OnTestFinish", testName, ShutdownStatus(failed),
                               IF failed THEN <<"test failed">> ELSE Nil)
       IN reported' = IF hasReporter
                      THEN reported \o <<finish, finish>>
                      ELSE reported
    /\ UNCHANGED <<pc, activities, idx, trace, failed, hasReporter, reportable>>
    /\ UNCHANGED outside
Shutdown ==
    /\ pc \in {"idle", "exited"}
    /\ Len(reported) <= MaxShutdowns
    /\ LET status == ShutdownStatus(failed)
           testErr == IF failed THEN <<"test failed">> ELSE Nil
       IN reported' = IF hasReporter
                      THEN Append(reported, TestEvent("OnTestFinish", testName, status, testErr))
                      ELSE reported
    /\ UNCHANGED <<pc, activities, idx, trace, failed, hasReporter, reportable>>
    /\ UNCHANGED outside

Next == AttemptsTo \/ Iterate \/ Return \/ Shutdown

Spec == Init /\ [][Next]_vars

\* the same engine, performing one task of any sub-activities
TaskNext == AttemptsToTask \/ Iterate \/ Return \/ Shutdown

TaskSpec == Init /\ [][TaskNext]_vars

(* ------------- the same engine, performing a batch of assertions ------ *)
\* Ensure activities, alone or as the sub-activities of a task
Assertions == {That} \cup {TaskWhere(s) : s \in SeqUpTo({That}, MaxSubs)}
AssertionLists == SeqUpTo(Assertions, MaxActs)

AttemptsToAssertions == \E acts \in AssertionLists : Begin(acts)

BatchNext == AttemptsToAssertions \/ Iterate \/ Return

BatchSpec == Init /\ [][BatchNext]_vars

(* ------------------- the actor, one goroutine calling ----------------- *)
\* testActor.WhoCan(batch...), the lock free
WhoCan ==
    /\ pc = "idle"
    /\ \E batch \in SeqUpTo(AbilityValues, MaxBatch) :
        /\ Len(abilities) + Len(batch) <= MaxAbilities
        /\ abilities' = AppendAbilities(abilities, batch)
        /\ call' = [op |-> "WhoCan", abilities |-> batch]
    /\ returned' = Nil
    /\ UNCHANGED <<pc, activities, idx, trace, failed, hasReporter, reported,
                   reportable>>
    /\ UNCHANGED <<locking, apart>>

\* testActor.AbilityTo(abilityType), the lock free
AbilityTo ==
    /\ pc = "idle"
    /\ \E abilityType \in AbilityValues :
        /\ call' = [op |-> "AbilityTo", abilityType |-> abilityType]
        /\ returned' = AbilityScan(abilities, abilityType, 1)
    /\ UNCHANGED <<pc, activities, idx, trace, failed, hasReporter, reported,
                   reportable, abilities>>
    /\ UNCHANGED <<locking, apart>>

\* testActor.AnswersTo(question), the question returning q
AnswersTo ==
    /\ pc = "idle"
    /\ \E q \in QuestionResults :
        /\ call' = [op |-> "AnswersTo", question |-> q]
        /\ returned' = IF q.err # Nil
                       THEN [value |-> 0, ok |-> FALSE]
                       ELSE [value |-> q.actual, ok |-> TRUE]
        /\ failed' = (failed \/ q.err # Nil)
    /\ UNCHANGED <<pc, activities, idx, trace, hasReporter, reported,
                   reportable, abilities>>
    /\ UNCHANGED <<locking, apart>>

\* AttemptsTo with one activity that is not a task
AttemptsToOne == \E a \in Leaves : Begin(<<a>>)

ActorNext ==
    WhoCan \/ AbilityTo \/ AnswersTo \/ AttemptsToOne \/ Iterate \/ Return

ActorSpec == Init /\ [][ActorNext]_vars

(* --------------- the test manager, on any sink and any name ----------- *)
\* NewSerenityTestWithReporter on a sink of any name, failed already or not
ManagerInit ==
    /\ hasReporter \in BOOLEAN
    /\ testName \in TestNames
    /\ ApartInit
    /\ reported = IF hasReporter
                  THEN <<TestEvent("OnTestStart", testName, StatusPassed, Nil)>>
                  ELSE <<>>
    /\ pc = "idle"
    /\ activities = <<>>
    /\ idx = 0
    /\ trace = <<>>
    /\ failed \in BOOLEAN
    /\ reportable = failed
    /\ abilities = <<>>
    /\ goroutines = [g \in Goroutines |-> Outside]
    /\ mutex = [writer |-> FALSE, readers |-> 0]
    /\ boundaries = {<<>>}
    /\ call = NoCall
    /\ returned = Nil

ManagerNext == AttemptsToOne \/ Iterate \/ Return \/ Shutdown

ManagerSpec == ManagerInit /\ [][ManagerNext]_vars

(* ----------------------- core.actor.AttemptsTo ------------------------ *)
\* activity.Description(): the text an activity of this kind was given
Description(a) ==
    CASE a.kind = "task" -> "completes the task"
      [] a.kind = "interaction" -> "does the interaction"
      [] a.kind = "ensure" -> "ensures that the answer is as expected"
      [] a.fm = ErrorButContinue -> "does the non-critical step"
      [] a.fm = Ignore -> "does the optional step"
      [] OTHER -> "does the step"

\* fmt.Errorf("... '%s': %w", description, err): the message with its
\* argument, in front of the chain of err
FmtErrorfS(msg, description, err) == <<msg, description>> \o err

\* a faulty variant of CoreContinues
CoreContinuesByMode(a, err) == err = Nil \/ FailureMode(a) \in {ErrorButContinue, Ignore}
\* whether the loop of actor.AttemptsTo goes on after activity a returned err
CoreContinues(a, err) == err = Nil

\* the loop of actor.AttemptsTo from position k on: what was done, and the
\* error returned
RECURSIVE CoreLoop(_, _, _)
CoreLoop(acts, outs, k) ==
    IF k > Len(acts)
    THEN [err |-> Nil, events |-> <<>>]
    ELSE LET r == PerformAs(acts[k], <<outs[k]>>, k)
             here == <<Event("PerformAs", k, 0, Nil)>> \o r.events
                       \o <<Event("Return", k, 0, r.err)>>
         IN IF CoreContinues(acts[k], r.err)
            THEN LET rest == CoreLoop(acts, outs, k + 1)
                 IN [err |-> rest.err, events |-> here \o rest.events]
            ELSE [err |-> FmtErrorfS("failed to perform activity",
                                     Description(acts[k]), r.err),
                  events |-> here]

\* err := core.NewActor(name).AttemptsTo(acts...), the activities behaving
\* as outs; the actor keeps nothing from one call to the next, so one call
\* is looked at
CoreAttemptsTo ==
    /\ call = NoCall
    /\ \E acts \in ActivityLists :
        \E outs \in [1..Len(acts) -> AllOutcomes] :
            /\ \A k \in 1..Len(acts) : outs[k] \in LeafOutcomes(acts[k])
            /\ call' = [op |-> "core.AttemptsTo", activities |-> acts]
            /\ returned' = CoreLoop(acts, outs, 1)
            /\ UNCHANGED <<apart, engine, abilities, goroutines, mutex, boundaries>>

CoreNext == CoreAttemptsTo

CoreSpec == Init /\ [][CoreNext]_vars

(* ---------------- the actor, shared by several goroutines ------------- *)
\* the abilities the goroutines add and ask for
SharedValues == {Ability(RestClient, 1), Ability(DbConn, 1)}

\* a faulty variant of CanLock: a writer gets in among readers
CanLockAmongReaders(m) == ~m.writer
\* sync.RWMutex: Lock returns when no writer and no reader holds the mutex,
\* RLock when no writer holds it
CanLock(m) == ~m.writer /\ m.readers = 0
CanRLock(m) == ~m.writer

\* WhoCan(batch...) in goroutine g: ta.mutex.Lock() returns
WhoCanLock(g) ==
    /\ goroutines[g].pc = "out"
    /\ CanLock(mutex)
    /\ \E batch \in SeqUpTo(SharedValues, MaxBatch) :
        /\ Len(abilities) + Len(batch) <= MaxAbilities
        /\ goroutines' = [goroutines EXCEPT ![g] =
                            [Outside EXCEPT !.pc = "appending", !.arg = batch]]
    /\ mutex' = [mutex EXCEPT !.writer = TRUE]
    /\ UNCHANGED <<apart, engine, abilities, boundaries, call, returned>>

\* WhoCan: append puts one more argument at the end of the list (the list
\* during the append, as finely as another goroutine could see it)
WhoCanAppend(g) ==
    /\ goroutines[g].pc = "appending"
    /\ goroutines[g].done < Len(goroutines[g].arg)
    /\ abilities' = AppendAbilities(abilities,
                        <<goroutines[g].arg[goroutines[g].done + 1]>>)
    /\ goroutines' = [goroutines EXCEPT ![g].done = @ + 1]
    /\ UNCHANGED <<apart, engine, mutex, boundaries, call, returned>>

\* WhoCan returns: the deferred ta.mutex.Unlock()
WhoCanUnlock(g) ==
    /\ goroutines[g].pc = "appending"
    /\ goroutines[g].done = Len(goroutines[g].arg)
    /\ mutex' = [mutex EXCEPT !.writer = FALSE]
    /\ boundaries' = boundaries \cup {abilities}
    /\ goroutines' = [goroutines EXCEPT ![g] = Outside]
    /\ UNCHANGED <<apart, engine, abilities, call, returned>>

\* AbilityTo(abilityType) in goroutine g: ta.mutex.RLock() returns
AbilityToRLock(g) ==
    /\ goroutines[g].pc = "out"
    /\ CanRLock(mutex)
    /\ \E abilityType \in SharedValues :
        goroutines' = [goroutines EXCEPT ![g] =
                         [Outside EXCEPT !.pc = "scanning", !.arg = <<abilityType>>]]
    /\ mutex' = [mutex EXCEPT !.readers = @ + 1]
    /\ UNCHANGED <<apart, engine, abilities, boundaries, call, returned>>

\* AbilityTo: range ta.abilities reads the list once and scans what it read
AbilityToScan(g) ==
    /\ goroutines[g].pc = "scanning"
    /\ goroutines' = [goroutines EXCEPT
                        ![g].pc = "scanned",
                        ![g].seen = abilities,
                        ![g].ret = AbilityScan(abilities, goroutines[g].arg[1], 1)]
    /\ UNCHANGED <<apart, engine, abilities, mutex, boundaries, call, returned>>

\* AbilityTo returns: the deferred ta.mutex.RUnlock()
AbilityToRUnlock(g) ==
    /\ goroutines[g].pc = "scanned"
    /\ mutex' = [mutex EXCEPT !.readers = @ - 1]
    /\ goroutines' = [goroutines EXCEPT ![g] = Outside]
    /\ UNCHANGED <<apart, engine, abilities, boundaries, call, returned>>

LockNext ==
    \E g \in Goroutines :
        \/ WhoCanLock(g) \/ WhoCanAppend(g) \/ WhoCanUnlock(g)
        \/ AbilityToRLock(g) \/ AbilityToScan(g) \/ AbilityToRUnlock(g)

LockSpec == Init /\ [][LockNext]_vars

(* -------- serenityTest.ActorCalled, called from several goroutines ---- *)
\* a faulty variant of DoubleCheck: the map is not read again under the
\* write lock
NoDoubleCheck(found, m, name) == found
\* if actor, exists := st.actors[name]; exists: the lookup made again after
\* st.mutex.Lock()
DoubleCheck(found, m, name) == [actor |-> m[name], exists |-> m[name] # NoActor]

\* ActorCalled(name) in goroutine g: st.mutex.RLock() returns
ActorCalledRLock(g) ==
    /\ callers[g].pc = "out"
    /\ callers[g].done < MaxCalls
    /\ CanRLock(stMutex)
    /\ \E name \in ActorNames :
        callers' = [callers EXCEPT ![g] =
                      [NotCalling EXCEPT !.pc = "reading", !.name = name,
                                         !.done = callers[g].done]]
    /\ stMutex' = [stMutex EXCEPT !.readers = @ + 1]
    /\ UNCHANGED <<engine, abilities, call, returned, locking>>
    /\ UNCHANGED <<testName, stActors, stCreated, handedOut>>
    /\ UNCHANGED <<consoleState, registryState>>

\* actor, exists := st.actors[name]; st.mutex.RUnlock()
ActorCalledLookup(g) ==
    /\ callers[g].pc = "reading"
    /\ callers' = [callers EXCEPT ![g].pc = "looked",
                                  ![g].actor = stActors[callers[g].name],
                                  ![g].exists = stActors[callers[g].name] # NoActor]
    /\ stMutex' = [stMutex EXCEPT !.readers = @ - 1]
    /\ UNCHANGED <<engine, abilities, call, returned, locking>>
    /\ UNCHANGED <<testName, stActors, stCreated, handedOut>>
    /\ UNCHANGED <<consoleState, registryState>>

\* if exists { return actor }
ActorCalledFound(g) ==
    /\ callers[g].pc = "looked"
    /\ callers[g].exists
    /\ handedOut' = handedOut \cup {<<callers[g].name, callers[g].actor>>}
    /\ callers' = [callers EXCEPT ![g] =
                      [NotCalling EXCEPT !.done = callers[g].done + 1]]
    /\ UNCHANGED <<engine, abilities, call, returned, locking>>
    /\ UNCHANGED <<testName, stActors, stMutex, stCreated>>
    /\ UNCHANGED <<consoleState, registryState>>

\* st.mutex.Lock() returns
ActorCalledLock(g) ==
    /\ callers[g].pc = "looked"
    /\ ~callers[g].exists
    /\ CanLock(stMutex)
    /\ stMutex' = [stMutex EXCEPT !.writer = TRUE]
    /\ callers' = [callers EXCEPT ![g].pc = "locked"]
    /\ UNCHANGED <<engine, abilities, call, returned, locking>>
    /\ UNCHANGED <<testName, stActors, stCreated, handedOut>>
    /\ UNCHANGED <<consoleState, registryState>>

\* the rest of ActorCalled, the write lock held: the double check, the new
\* testActor stored in the map, the deferred Unlock and the return
ActorCalledCreate(g) ==
    /\ callers[g].pc = "locked"
    /\ LET name == callers[g].name
           found == [actor |-> callers[g].actor, exists |-> callers[g].exists]
           again == DoubleCheck(found, stActors, name)
           actor == [name |-> name, id |-> stCreated + 1]
       IN IF again.exists
          THEN /\ handedOut' = handedOut \cup {<<name, again.actor>>}
               /\ UNCHANGED <<stActors, stCreated>>
          ELSE /\ stActors' = [stActors EXCEPT ![name] = actor]
               /\ stCreated' = stCreated + 1
               /\ handedOut' = handedOut \cup {<<name, actor>>}
    /\ stMutex' = [stMutex EXCEPT !.writer = FALSE]
    /\ callers' = [callers EXCEPT ![g] =
                      [NotCalling EXCEPT !.done = callers[g].done + 1]]
    /\ UNCHANGED <<engine, abilities, call, returned, locking>>
    /\ UNCHANGED testName
    /\ UNCHANGED <<consoleState, registryState>>

CalledNext ==
    \E g \in Goroutines :
        \/ ActorCalledRLock(g) \/ ActorCalledLookup(g) \/ ActorCalledFound(g)
        \/ ActorCalledLock(g) \/ ActorCalledCreate(g)

CalledSpec == Init /\ [][CalledNext]_vars

(* ------ ConsoleReporter, steps reported from several goroutines ------- *)
\* the step descriptions the trackers hand to the reporter
StepDescriptions == {"#actor sends a request", "alice sends a request",
                     "alice ensures that the status is 200"}

\* formatStepDescription: a leading "#actor " is cut off, a first letter in
\* lower case is put in upper case
formatStepDescription(description) ==
    CASE description = "#actor sends a request" -> "Sends a request"
      [] description = "alice sends a request" -> "Alice sends a request"
      [] description = "alice ensures that the status is 200" ->
            "Alice ensures that the status is 200"

\* getStepKey: fmt.Sprintf("%d:%s", indentLevel, description)
getStepKey(description, level) == <<level, description>>

\* a goroutine that reports no step
NotReporting == [pc |-> "out", description |-> "", level |-> 0, added |-> <<0, "">>,
                 removed |-> FALSE, done |-> 0]

\* Every section of the reporter between cr.mutex.Lock() and Unlock() runs
\* without waiting for anything else, so each is one step.

\* OnStepStart(stepDescription) in goroutine g, its first locked section:
\* cr.indentLevel++, the description formatted, the level read
OnStepStartIndent(g) ==
    /\ reporting[g].pc = "out"
    /\ reporting[g].done < MaxSteps
    /\ \E stepDescription \in StepDescriptions :
        reporting' = [reporting EXCEPT ![g] =
            [NotReporting EXCEPT !.pc = "starting",
                                 !.description = formatStepDescription(stepDescription),
                                 !.level = indentLevel + 1,
                                 !.done = reporting[g].done]]
    /\ indentLevel' = indentLevel + 1
    /\ UNCHANGED activeSteps
    /\ UNCHANGED <<engine, abilities, call, returned, locking, managerState>>
    /\ UNCHANGED registryState

\* cr.addActiveStep(description, indentLevel); OnStepStart returns and the
\* activity is performed
addActiveStep(g) ==
    /\ reporting[g].pc = "starting"
    /\ LET key == getStepKey(reporting[g].description, reporting[g].level)
       IN /\ activeSteps' = activeSteps \cup {key}
          /\ reporting' = [reporting EXCEPT ![g].pc = "performing", ![g].added = key]
    /\ UNCHANGED indentLevel
    /\ UNCHANGED <<engine, abilities, call, returned, locking, managerState>>
    /\ UNCHANGED registryState

\* OnStepFinish(stepResult) in goroutine g, its first locked section: the
\* description formatted, cr.indentLevel read
OnStepFinishRead(g) ==
    /\ reporting[g].pc = "performing"
    /\ reporting' = [reporting EXCEPT ![g].pc = "finishing", ![g].level = indentLevel]
    /\ UNCHANGED <<indentLevel, activeSteps>>
    /\ UNCHANGED <<engine, abilities, call, returned, locking, managerState>>
    /\ UNCHANGED registryState

\* cr.removeActiveStep(description, indentLevel)
removeActiveStep(g) ==
    /\ reporting[g].pc = "finishing"
    /\ LET key == getStepKey(reporting[g].description, reporting[g].level)
       IN /\ activeSteps' = activeSteps \ {key}
          /\ reporting' = [reporting EXCEPT ![g].pc = "removing",
                                            ![g].removed = (key \in activeSteps)]
    /\ UNCHANGED indentLevel
    /\ UNCHANGED <<engine, abilities, call, returned, locking, managerState>>
    /\ UNCHANGED registryState

\* the last locked section of OnStepFinish: cr.indentLevel--
OnStepFinishUnindent(g) ==
    /\ reporting[g].pc = "removing"
    /\ indentLevel' = indentLevel - 1
    /\ reporting' = [reporting EXCEPT ![g] =
                        [NotReporting EXCEPT !.done = reporting[g].done + 1]]
    /\ UNCHANGED activeSteps
    /\ UNCHANGED <<engine, abilities, call, returned, locking, managerState>>
    /\ UNCHANGED registryState

ConsoleNext ==
    \E g \in Reporters :
        \/ OnStepStartIndent(g) \/ addActiveStep(g) \/ OnStepFinishRead(g)
        \/ removeActiveStep(g) \/ OnStepFinishUnindent(g)

ConsoleSpec == Init /\ [][ConsoleNext]_vars

(* ------ the package-level registry of core: ActorCalled, Forget ------- *)
\* core.NewActor(name): the actor object, no ability in its list
NewActor(name) == [name |-> name, abilities |-> <<>>]

\* a goroutine that is in no call on the registry; ret is what its last
\* ActorCalled returned (a pointer: the place of the object in the heap)
NotRegistering == [pc |-> "out", name |-> "", ret |-> 0, done |-> 0]

\* a faulty variant of RegistryDoubleCheck: the map is not read again
RegistryNoDoubleCheck(m, name) == 0
\* if existing, exists := actors[name]; exists: the lookup made again after
\* actorsMutex.Lock() (0: no entry)
RegistryDoubleCheck(m, name) == m[name]

\* ActorCalled(name) in goroutine g: actorsMutex.RLock() returns
RegistryRLock(g) ==
    /\ registering[g].pc = "out"
    /\ registering[g].done < MaxOps
    /\ CanRLock(actorsMutex)
    /\ \E name \in ActorNames :
        registering' = [registering EXCEPT ![g] =
            [NotRegistering EXCEPT !.pc = "reading", !.name = name,
                                   !.done = registering[g].done]]
    /\ actorsMutex' = [actorsMutex EXCEPT !.readers = @ + 1]
    /\ UNCHANGED <<coreActors, coreHeap, coreFirst>>
    /\ UNCHANGED <<engine, abilities, call, returned, locking, managerState, consoleState>>

\* the lookup under the read lock: the actor found is returned after
\* RUnlock; with none found RUnlock is all
RegistryLookup(g) ==
    /\ registering[g].pc = "reading"
    /\ LET existing == coreActors[registering[g].name]
       IN IF existing # 0
          THEN /\ registering' = [registering EXCEPT ![g].pc = "out",
                                                     ![g].ret = existing,
                                                     ![g].done = @ + 1]
               /\ coreFirst' = [coreFirst EXCEPT ![registering[g].name] =
                                   IF @ = 0 THEN existing ELSE @]
          ELSE /\ registering' = [registering EXCEPT ![g].pc = "missed"]
               /\ UNCHANGED coreFirst
    /\ actorsMutex' = [actorsMutex EXCEPT !.readers = @ - 1]
    /\ UNCHANGED <<coreActors, coreHeap>>
    /\ UNCHANGED <<engine, abilities, call, returned, locking, managerState, consoleState>>

\* actorsMutex.Lock() returns, in ActorCalled
RegistryLock(g) ==
    /\ registering[g].pc = "missed"
    /\ CanLock(actorsMutex)
    /\ actorsMutex' = [actorsMutex EXCEPT !.writer = TRUE]
    /\ registering' = [registering EXCEPT ![g].pc = "locked"]
    /\ UNCHANGED <<coreActors, coreHeap, coreFirst>>
    /\ UNCHANGED <<engine, abilities, call, returned, locking, managerState, consoleState>>

\* the rest of ActorCalled, the write lock held: the double check, NewActor,
\* the map entry, the deferred Unlock and the return
RegistryCreate(g) ==
    /\ registering[g].pc = "locked"
    /\ LET name == registering[g].name
           existing == RegistryDoubleCheck(coreActors, name)
           newActor == Len(coreHeap) + 1
           result == IF existing # 0 THEN existing ELSE newActor
       IN /\ IF existing # 0
             THEN UNCHANGED <<coreActors, coreHeap>>
             ELSE /\ coreHeap' = Append(coreHeap, NewActor(name))
                  /\ coreActors' = [coreActors EXCEPT ![name] = newActor]
          /\ registering' = [registering EXCEPT ![g].pc = "out", ![g].ret = result,
                                                ![g].done = @ + 1]
          /\ coreFirst' = [coreFirst EXCEPT ![name] = IF @ = 0 THEN result ELSE @]
    /\ actorsMutex' = [actorsMutex EXCEPT !.writer = FALSE]
    /\ UNCHANGED <<engine, abilities, call, returned, locking, managerState, consoleState>>

\* ForgetActor(name) in goroutine g: actorsMutex.Lock() returns
ForgetActorLock(g) ==
    /\ registering[g].pc = "out"
    /\ registering[g].done < MaxOps
    /\ CanLock(actorsMutex)
    /\ \E name \in ActorNames :
        registering' = [registering EXCEPT ![g] =
            [NotRegistering EXCEPT !.pc = "forgetting", !.name = name,
                                   !.done = registering[g].done]]
    /\ actorsMutex' = [actorsMutex EXCEPT !.writer = TRUE]
    /\ UNCHANGED <<coreActors, coreHeap, coreFirst>>
    /\ UNCHANGED <<engine, abilities, call, returned, locking, managerState, consoleState>>

\* delete(actors, name) and the deferred Unlock
ForgetActorDelete(g) ==
    /\ registering[g].pc = "forgetting"
    /\ coreActors' = [coreActors EXCEPT ![registering[g].name] = 0]
    /\ coreFirst' = [coreFirst EXCEPT ![registering[g].name] = 0]
    /\ registering' = [registering EXCEPT ![g].pc = "out", ![g].done = @ + 1]
    /\ actorsMutex' = [actorsMutex EXCEPT !.writer = FALSE]
    /\ UNCHANGED coreHeap
    /\ UNCHANGED <<engine, abilities, call, returned, locking, managerState, consoleState>>

\* ForgetAllActors() in goroutine g: actorsMutex.Lock() returns
ForgetAllActorsLock(g) ==
    /\ registering[g].pc = "out"
    /\ registering[g].done < MaxOps
    /\ CanLock(actorsMutex)
    /\ registering' = [registering EXCEPT ![g] =
            [NotRegistering EXCEPT !.pc = "forgettingAll",
                                   !.done = registering[g].done]]
    /\ actorsMutex' = [actorsMutex EXCEPT !.writer = TRUE]
    /\ UNCHANGED <<coreActors, coreHeap, coreFirst>>
    /\ UNCHANGED <<engine, abilities, call, returned, locking, managerState, consoleState>>

\* actors = make(map[string]Actor) and the deferred Unlock
ForgetAllActorsClear(g) ==
    /\ registering[g].pc = "forgettingAll"
    /\ coreActors' = [n \in ActorNames |-> 0]
    /\ coreFirst' = [n \in ActorNames |-> 0]
    /\ registering' = [registering EXCEPT ![g].pc = "out", ![g].done = @ + 1]
    /\ actorsMutex' = [actorsMutex EXCEPT !.writer = FALSE]
    /\ UNCHANGED coreHeap
    /\ UNCHANGED <<engine, abilities, call, returned, locking, managerState, consoleState>>

\* WhoCan(ability) on an actor the registry handed out, which has none yet
RegisteredWhoCan ==
    /\ \E a \in 1..Len(coreHeap) :
        /\ coreHeap[a].abilities = <<>>
        /\ coreHeap' = [coreHeap EXCEPT ![a].abilities = <<Ability(RestClient, 1)>>]
    /\ UNCHANGED <<coreActors, actorsMutex, coreFirst, registering>>
    /\ UNCHANGED <<engine, abilities, call, returned, locking, managerState, consoleState>>

RegistryNext ==
    \/ \E g \in Registrants :
        \/ RegistryRLock(g) \/ RegistryLookup(g) \/ RegistryLock(g)
        \/ RegistryCreate(g)
        \/ ForgetActorLock(g) \/ ForgetActorDelete(g)
        \/ ForgetAllActorsLock(g) \/ ForgetAllActorsClear(g)
    \/ RegisteredWhoCan

RegistrySpec == Init /\ [][RegistryNext]_vars

(* -------------- EnsureActivity.PerformAs, called directly ------------- *)
\* ensure.That(question, expectation).PerformAs(actor) for a question that
\* returns q and an expectation that behaves as e
EnsureCall ==
    \E q \in QuestionResults, e \in Expectations :
        LET r == EnsurePerformAs(q, e, 1, 0)
        IN /\ call' = [op |-> "EnsurePerformAs", question |-> q,
                       expectation |-> e]
           /\ trace' = r.events
           /\ returned' = r.err
           /\ UNCHANGED <<pc, activities, idx, failed, hasReporter, reported,
                          reportable, abilities>>
           /\ UNCHANGED <<locking, apart>>

EnsureNext == EnsureCall

EnsureSpec == Init /\ [][EnsureNext]_vars

(* ------------------------------ Go values ----------------------------- *)
\* A Go type: its kind (reflect.Kind), its name as %T prints it, the length
\* of an array type, the names of the key and element types of a map, slice
\* or array type.  Two types are identical when all of these agree.
GoType(kind, name, len, key, elem) ==
    [kind |-> kind, name |-> name, len |-> len, key |-> key, elem |-> elem]
Scalar(kind, name) == GoType(kind, name, 0, "", "")

TInt == Scalar("int", "int")
TInt64 == Scalar("int64", "int64")
TInt32 == Scalar("int32", "int32")
TUint == Scalar("uint", "uint")
TFloat64 == Scalar("float64", "float64")
TFloat32 == Scalar("float32", "float32")
TString == Scalar("string", "string")
TBool == Scalar("bool", "bool")
\* type MyInt int, type MyString string
TMyInt == Scalar("int", "main.MyInt")
TMyString == Scalar("string", "main.MyString")
\* type Point struct { X int; Y float64 }, type Tagged struct { Tags []int }
TPoint == GoType("struct", "main.Point", 0, "", "")
TTagged == GoType("struct", "main.Tagged", 0, "", "")
TSlice(elem) == GoType("slice", "[]", 0, "", elem)
TArray(n, elem) == GoType("array", "[n]", n, "", elem)
TMap(key, elem) == GoType("map", "map", 0, key, elem)
\* the type of nothing: reflect.ValueOf(nil) is the invalid Value
TNil == Scalar("invalid", "<nil>")

\* A Go value held in an interface: its dynamic type; ptr, for a slice or
\* a map, names the underlying array or map object it refers to (0: nil);
\* num is the number of a numeric value or the truth of a bool; str the
\* bytes of a string; elems the elements of a slice or an array, the fields
\* of a struct, the entries of a map (in the order of their keys).
GoValue(type, ptr, num, str, elems) ==
    [type |-> type, ptr |-> ptr, num |-> num, str |-> str, elems |-> elems]

Number(type, n) == GoValue(type, 0, n, <<>>, <<>>)
String(type, bytes) == GoValue(type, 0, 0, bytes, <<>>)
Slice(elem, ptr, elems) == GoValue(TSlice(elem), ptr, 0, <<>>, elems)
Array(elem, elems) == GoValue(TArray(Len(elems), elem), 0, 0, <<>>, elems)
Struct(type, fields) == GoValue(type, 0, 0, <<>>, fields)
\* one entry of a map
Entry(key, value) == GoValue(Scalar("entry", "entry"), 0, 0, <<>>, <<key, value>>)
Map(key, elem, ptr, entries) == GoValue(TMap(key, elem), ptr, 0, <<>>, entries)
NilValue == GoValue(TNil, 0, 0, <<>>, <<>>)

\* the numbers of the model, and NaN, which is a float and no number
Nums == 0..MaxNum
NaN == MaxNum + 1
IsNaN(v) == v.type.kind \in {"float64", "float32"} /\ v.num = NaN

\* the bytes of the strings of the model: 'a' and 'b'
Bytes == {97, 98}
Strings == SeqUpTo(Bytes, MaxLen)

(* --------------------------- reflect.DeepEqual ------------------------ *)
\* reflect.Value.MapIndex(key) and the two-value index m[key]: the value of
\* the entry whose key equals key; not valid when there is no such entry
MapIndex(m, key) ==
    IF \E i \in 1..Len(m.elems) : m.elems[i].elems[1] = key
    THEN [valid |-> TRUE,
          value |-> m.elems[CHOOSE i \in 1..Len(m.elems) :
                                m.elems[i].elems[1] = key].elems[2]]
    ELSE [valid |-> FALSE, value |-> NilValue]

\* reflect's deepValueEqual, for two values of one type
RECURSIVE deepValueEqual(_, _)
deepValueEqual(v1, v2) ==
    LET kind == v1.type.kind
        elemsEqual == \A i \in 1..Len(v1.elems) :
                          deepValueEqual(v1.elems[i], v2.elems[i])
    IN CASE kind \in {"array", "struct"} -> elemsEqual
         [] kind = "slice" ->
              IF (v1.ptr = 0) # (v2.ptr = 0) THEN FALSE
              ELSE IF Len(v1.elems) # Len(v2.elems) THEN FALSE
              ELSE IF v1.ptr = v2.ptr THEN TRUE
              ELSE elemsEqual
         [] kind = "map" ->
              IF (v1.ptr = 0) # (v2.ptr = 0) THEN FALSE
              ELSE IF Len(v1.elems) # Len(v2.elems) THEN FALSE
              ELSE IF v1.ptr = v2.ptr THEN TRUE
              ELSE \A i \in 1..Len(v1.elems) :
                      LET val1 == v1.elems[i].elems[2]
                          val2 == MapIndex(v2, v1.elems[i].elems[1])
                      IN val2.valid /\ deepValueEqual(val1, val2.value)
         [] kind \in {"float64", "float32"} ->
              ~IsNaN(v1) /\ ~IsNaN(v2) /\ v1.num = v2.num
         [] kind = "string" -> v1.str = v2.str
         [] OTHER -> v1.num = v2.num

\* reflect.DeepEqual(x, y)
DeepEqual(x, y) ==
    IF x = NilValue \/ y = NilValue THEN x = y
    ELSE IF x.type # y.type THEN FALSE
    ELSE deepValueEqual(x, y)

\* what fmt prints for a value under %v: its contents, not its type nor
\* which array or map object it refers to
RECURSIVE Sprint(_)
Sprint(v) ==
    [num |-> v.num, str |-> v.str,
     elems |-> [i \in 1..Len(v.elems) |-> Sprint(v.elems[i])]]

\* the result of an Evaluate call: the error returned, or a panic
Returns(err) == [done |-> TRUE, err |-> err, panicked |-> FALSE]
Panics == [done |-> TRUE, err |-> Nil, panicked |-> TRUE]
NotReturned == [done |-> FALSE, err |-> Nil, panicked |-> FALSE]

\* a faulty variant of EqualsEvaluate: equal when printed alike
EqualsEvaluatePrinted(expected, actual) ==
    IF Sprint(actual) # Sprint(expected)
    THEN Returns(<<"expected, but got">>)
    ELSE Returns(Nil)
\* EqualsExpectation.Evaluate: Equals(expected).Evaluate(actual)
EqualsEvaluate(expected, actual) ==
    IF ~DeepEqual(actual, expected)
    THEN Returns(<<"expected, but got">>)
    ELSE Returns(Nil)

(* ----------------------- expectations, evaluated ---------------------- *)
\* the values Equals is given
IntElems == {Number(TInt, 0), Number(TInt, 1)}
FloatElems == {Number(TFloat64, 0), Number(TFloat64, NaN)}
\* the slices of elements elems: the nil slice, and slices of two arrays
SlicesOf(elem, elems) ==
    {Slice(elem, 0, <<>>)}
      \cup {Slice(elem, p, e) : p \in {1, 2}, e \in SeqUpTo(elems, MaxLen)}
KeyA == String(TString, <<97>>)
KeyB == String(TString, <<98>>)
\* the entries of a map of keys "a" and "b", in the order of the keys
EntryLists(values) ==
    {<<>>} \cup {<<Entry(KeyA, v)>> : v \in values}
      \cup {<<Entry(KeyB, v)>> : v \in values}
      \cup {<<Entry(KeyA, v), Entry(KeyB, w)>> : v \in values, w \in values}
MapsOf(key, elem, values) ==
    {Map(key, elem, 0, <<>>)}
      \cup {Map(key, elem, p, e) : p \in {1, 2}, e \in EntryLists(values)}
Floats == {Number(TFloat64, n) : n \in Nums \cup {NaN}}
EqualsValues ==
    {Number(t, n) : t \in {TInt, TInt64, TMyInt}, n \in Nums}
      \cup Floats
      \cup {Number(TBool, n) : n \in {0, 1}}
      \cup {String(TString, b) : b \in Strings}
      \cup {Struct(TPoint, <<x, y>>) : x \in IntElems, y \in FloatElems}
      \cup {Struct(TTagged, <<tags>>) : tags \in SlicesOf("int", IntElems)}
      \cup SlicesOf("int", IntElems)
      \cup SlicesOf("float64", FloatElems)
      \cup MapsOf("string", "int", IntElems)
      \cup {NilValue}

IsPrefix(s, t) == Len(s) <= Len(t) /\ \A i \in 1..Len(s) : s[i] = t[i]
\* x and y can exist together: two slices of one array agree where they
\* overlap, two references to one map see the same entries
RECURSIVE Coherent(_, _)
Coherent(x, y) ==
    \/ x.type # y.type
    \/ /\ (x.ptr # 0 /\ x.ptr = y.ptr) =>
             IF x.type.kind = "map" THEN x.elems = y.elems
             ELSE IsPrefix(x.elems, y.elems) \/ IsPrefix(y.elems, x.elems)
       /\ \A i \in 1..Len(x.elems) :
             i <= Len(y.elems) => Coherent(x.elems[i], y.elems[i])

Call(op, expected, actual) == [op |-> op, expected |-> expected, actual |-> actual]

EqualsCalls ==
    {Call("Equals", p[1], p[2]) :
        p \in {q \in EqualsValues \X EqualsValues : Coherent(q[1], q[2])}}

\* strings.Contains(s, substr): substr occurs in s at some offset
StringsContains(str, substr) ==
    \E i \in 0..(Len(str) - Len(substr)) :
        SubSeq(str, i + 1, i + Len(substr)) = substr

\* ContainsExpectation.Evaluate of package expectations:
\* Contains(substring).Evaluate(actual)
ContainsEvaluate(substring, actual) ==
    IF actual.str = <<>>
    THEN Returns(<<"expected string to contain, but got empty string">>)
    ELSE IF ~StringsContains(actual.str, substring.str)
    THEN Returns(<<"expected string to contain, but got">>)
    ELSE Returns(Nil)

\* ContainsExpectation.Evaluate of package assertions
AssertionsContainsEvaluate(substring, actual) ==
    IF ~StringsContains(actual.str, substring.str)
    THEN Returns(<<"expected string to contain, but got">>)
    ELSE Returns(Nil)

StringValues == {String(TString, b) : b \in Strings}
ContainsCalls ==
    {Call(op, sub, a) : op \in {"Contains", "AssertionsContains"},
                        sub \in StringValues, a \in StringValues}

\* whether a string value can be assigned to a map key of the type named
\* keyType: to a string key and to an interface{} key only
StringAssignableTo(keyType) == keyType \in {"string", "interface {}"}

\* ContainsKeyExpectation.Evaluate: ContainsKey(key).Evaluate(actual)
ContainsKeyEvaluate(key, actual) ==
    IF actual.type.kind # "map"
    THEN Returns(<<"expected a map, but got">>)
    ELSE IF actual.type = TMap("string", "interface {}")
    THEN IF ~MapIndex(actual, key).valid
         THEN Returns(<<"expected map to contain key">>)
         ELSE Returns(Nil)
    ELSE IF ~StringAssignableTo(actual.type.key)
    THEN Panics
    ELSE IF ~MapIndex(actual, key).valid
    THEN Returns(<<"expected map to contain key">>)
    ELSE Returns(Nil)

\* the maps ContainsKey is given: nil, empty, of one entry and of two, of
\* keys k1 and k2
MapsOfKeys(key, elem, k1, k2, v) ==
    {Map(key, elem, 0, <<>>), Map(key, elem, 1, <<>>),
     Map(key, elem, 1, <<Entry(k1, v)>>), Map(key, elem, 1, <<Entry(k2, v)>>),
     Map(key, elem, 1, <<Entry(k1, v), Entry(k2, v)>>)}
ContainsKeyValues ==
    MapsOfKeys("string", "interface {}", KeyA, KeyB, Number(TInt, 0))
      \cup MapsOfKeys("string", "interface {}", KeyA, KeyB, NilValue)
      \cup MapsOfKeys("string", "int", KeyA, KeyB, Number(TInt, 0))
      \cup MapsOfKeys("interface {}", "int", KeyA, Number(TInt, 0), Number(TInt, 0))
      \cup MapsOfKeys("main.MyString", "int", String(TMyString, <<97>>),
                      String(TMyString, <<98>>), Number(TInt, 0))
      \cup MapsOfKeys("int", "string", Number(TInt, 0), Number(TInt, 1), KeyA)
      \cup {NilValue, Number(TInt, 0), KeyA, Slice("string", 1, <<KeyA>>),
            Struct(TPoint, <<Number(TInt, 0), Number(TFloat64, 0)>>)}
ContainsKeyCalls ==
    {Call("ContainsKey", String(TString, k), a) :
        k \in Strings, a \in ContainsKeyValues}

\* The integers of the model have 32 bits: TwoTo53 stands for 2^53, the
\* first integer from which float64 no longer holds every integer, and
\* TwoTo53 + k for 2^53 + k.  It is a multiple of 4 above NaN.
TwoTo53 == 4 * (MaxNum + 1)
\* the integers around 2^53 given to the comparisons
BigInts == {TwoTo53 + k : k \in 0..3}
\* the float64 values among them: from 2^53 to 2^54 every second integer
BigFloats == {TwoTo53, TwoTo53 + 2}

\* float64(v) of an integer v: itself up to 2^53; above, the nearest even
\* integer, a tie going to the multiple of 4 (round to nearest, ties to even)
Float64OfInt(n) ==
    IF n <= TwoTo53 THEN n
    ELSE IF n % 2 = 0 THEN n
    ELSE IF n % 4 = 1 THEN n - 1
    ELSE n + 1

\* a faulty variant of ToFloat64: a value of another type counts as 0
ToFloat64Lenient(value) ==
    IF value.type \in {TInt, TInt64, TFloat64, TFloat32}
    THEN [float |-> Number(TFloat64, value.num), err |-> Nil]
    ELSE [float |-> Number(TFloat64, 0), err |-> Nil]
\* utils.ToFloat64: the switch on the type of value.  float64(v) of an int
\* or an int64 is the nearest float64; a float32 is a float64 as it is.
ToFloat64(value) ==
    CASE value.type = TInt ->
            [float |-> Number(TFloat64, Float64OfInt(value.num)), err |-> Nil]
      [] value.type = TInt64 ->
            [float |-> Number(TFloat64, Float64OfInt(value.num)), err |-> Nil]
      [] value.type = TFloat64 -> [float |-> value, err |-> Nil]
      [] value.type = TFloat32 -> [float |-> Number(TFloat64, value.num), err |-> Nil]
      [] OTHER -> [float |-> Number(TFloat64, 0),
                   err |-> <<"unsupported numeric type">>]

\* a <= b on float64: false when either is NaN
FloatLessOrEqual(a, b) == ~IsNaN(a) /\ ~IsNaN(b) /\ a.num <= b.num

\* utils.CompareValues
CompareValues(actual, expected, operator) ==
    LET a == ToFloat64(actual)
        e == ToFloat64(expected)
    IN IF a.err # Nil
       THEN Returns(FmtErrorf("cannot compare actual value", a.err))
       ELSE IF e.err # Nil
       THEN Returns(FmtErrorf("cannot compare expected value", e.err))
       ELSE IF operator = ">" /\ FloatLessOrEqual(a.float, e.float)
       THEN Returns(<<"expected value to be greater than, but got">>)
       ELSE IF operator = "<" /\ FloatLessOrEqual(e.float, a.float)
       THEN Returns(<<"expected value to be less than, but got">>)
       ELSE Returns(Nil)

\* IsGreaterThanExpectation.Evaluate and IsLessThanExpectation.Evaluate
IsGreaterThanEvaluate(expected, actual) == CompareValues(actual, expected, ">")
IsLessThanEvaluate(expected, actual) == CompareValues(actual, expected, "<")

\* the values the comparisons are given: numbers of the four types, NaN,
\* int64 and float64 values from 2^53 on, and values of other types
CompareValueSet ==
    {Number(t, n) : t \in {TInt, TInt64, TFloat32, TFloat64, TInt32, TUint, TMyInt},
                    n \in Nums}
      \cup {Number(TFloat64, NaN), Number(TFloat32, NaN)}
      \cup {Number(TInt64, n) : n \in BigInts}
      \cup {Number(TFloat64, n) : n \in BigFloats}
      \cup {NilValue, KeyA, Number(TBool, 1), Slice("int", 1, <<Number(TInt, 1)>>)}
CompareCalls ==
    {Call(op, x, a) : op \in {"IsGreaterThan", "IsLessThan"},
                      x \in CompareValueSet, a \in CompareValueSet}

\* a faulty variant of ArrayLengthEqualsEvaluate: no case for strings
ArrayLengthEqualsNoString(expectedLength, actual) ==
    IF actual.type.kind \notin {"slice", "array"}
    THEN Returns(<<"ArrayLengthEquals expectation only works with">>)
    ELSE IF Len(actual.elems) # expectedLength.num
    THEN Returns(<<"expected length to be, but got">>)
    ELSE Returns(Nil)
\* ArrayLengthEqualsExpectation.Evaluate:
\* ArrayLengthEquals(expectedLength).Evaluate(actual)
ArrayLengthEqualsEvaluate(expectedLength, actual) ==
    LET kind == actual.type.kind
        length == IF kind \in {"slice", "array"} THEN Len(actual.elems)
                  ELSE Len(actual.str)
    IN IF kind \notin {"slice", "array", "string"}
       THEN Returns(<<"ArrayLengthEquals expectation only works with">>)
       ELSE IF length # expectedLength.num
       THEN Returns(<<"expected length to be, but got">>)
       ELSE Returns(Nil)

\* the values ArrayLengthEquals is given: strings, slices, arrays, others
LengthValues ==
    {String(t, b) : t \in {TString, TMyString}, b \in Strings}
      \cup SlicesOf("int", IntElems)
      \cup {Array("int", e) : e \in SeqUpTo(IntElems, MaxLen)}
      \cup {NilValue, Number(TInt, MaxLen), Map("string", "int", 1, <<>>),
            Struct(TPoint, <<Number(TInt, 0), Number(TFloat64, 0)>>)}
ArrayLengthCalls ==
    {Call("ArrayLengthEquals", Number(TInt, n), a) :
        n \in (0 - 1)..(MaxLen + 1), a \in LengthValues}

ExpectCalls ==
    EqualsCalls \cup ContainsCalls \cup ContainsKeyCalls \cup CompareCalls
      \cup ArrayLengthCalls

\* an expectation built and about to be evaluated, in a test that has no
\* reporter
ExpectInit ==
    /\ hasReporter = FALSE
    /\ reported = <<>>
    /\ pc = "idle"
    /\ activities = <<>>
    /\ idx = 0
    /\ trace = <<>>
    /\ failed = FALSE
    /\ reportable = FALSE
    /\ abilities = <<>>
    /\ goroutines = [g \in Goroutines |-> Outside]
    /\ mutex = [writer |-> FALSE, readers |-> 0]
    /\ boundaries = {<<>>}
    /\ call \in ExpectCalls
    /\ returned = NotReturned
    /\ testName = "TestExample"
    /\ ApartInit

\* the expectation of the call, one of kind op, is evaluated and returns
\* result
Evaluated(op, result) ==
    /\ call.op = op
    /\ ~returned.done
    /\ returned' = result
    /\ UNCHANGED <<apart, engine, abilities, call, goroutines, mutex, boundaries>>

EqualsCall == Evaluated("Equals", EqualsEvaluate(call.expected, call.actual))

ContainsCall == Evaluated("Contains", ContainsEvaluate(call.expected, call.actual))
AssertionsContainsCall == Evaluated("AssertionsContains", AssertionsContainsEvaluate(call.expected, call.actual))

ContainsKeyCall == Evaluated("ContainsKey", ContainsKeyEvaluate(call.expected, call.actual))

IsGreaterThanCall == Evaluated("IsGreaterThan", IsGreaterThanEvaluate(call.expected, call.actual))
IsLessThanCall == Evaluated("IsLessThan", IsLessThanEvaluate(call.expected, call.actual))
ArrayLengthEqualsCall == Evaluated("ArrayLengthEquals", ArrayLengthEqualsEvaluate(call.expected, call.actual))

ExpectNext ==
    \/ EqualsCall
    \/ ContainsCall
    \/ AssertionsContainsCall
    \/ ContainsKeyCall
    \/ IsGreaterThanCall
    \/ IsLessThanCall
    \/ ArrayLengthEqualsCall

ExpectSpec == ExpectInit /\ [][ExpectNext]_vars

(* ------------------------- reading the trace -------------------------- *)
\* errors.Unwrap: the error a %w message was put in front of
Unwrap(err) == IF err = Nil THEN Nil ELSE Tail(err)

IsTop(e, ev) == e.ev = ev /\ e.sub = 0

\* the PerformAs calls AttemptsTo itself made, in order
TopPerforms == SelectSeq(trace, LAMBDA e : IsTop(e, "PerformAs"))

Performed(i) == \E k \in 1..Len(trace) : IsTop(trace[k], "PerformAs") /\ trace[k].pos = i

\* the activity at position i returned an error
FailedAt(i) ==
    \E k \in 1..Len(trace) :
        IsTop(trace[k], "Return") /\ trace[k].pos = i /\ trace[k].val # Nil

SinkCalled(ev, i) == \E k \in 1..Len(trace) : trace[k].ev = ev /\ trace[k].pos = i

SinkCalls == {"Errorf", "FailNow", "Logf"}

\* the loop goes on after position i: the activity after it has been
\* performed or is the one the loop takes next
GoesOnAfter(i) ==
    i < Len(activities) => (Performed(i + 1) \/ (pc = "looping" /\ idx = i))

FailedWithMode(i, mode) == FailedAt(i) /\ FailureMode(activities[i]) = mode

(* ------------------------------- claims ------------------------------- *)

\* C1: in an AttemptsTo call, once the activity at position i has returned
\* an error and its FailureMode is FailFast, no activity at a position
\* greater than i is performed and the loop is over.
C1_FailFastStopsTheCall ==
    \A i \in 1..Len(activities) :
        FailedWithMode(i, FailFast) =>
            /\ \A j \in (i + 1)..Len(activities) : ~Performed(j)
            /\ pc # "looping"

\* a call that is over, in which a FailFast activity failed before the last
\* position
C1_Witness ==
    /\ pc \in {"returning", "unwinding"}
    /\ \E i \in 1..Len(activities) : i < Len(activities) /\ FailedWithMode(i, FailFast)

\* C2: when the activity at position i has returned an error and its
\* FailureMode is ErrorButContinue, the sink has received Errorf for it and
\* the loop goes on: the activity at i+1, when there is one, is performed
\* next.
C2_ErrorButContinueReportsAndGoesOn ==
    \A i \in 1..Len(activities) :
        FailedWithMode(i, ErrorButContinue) =>
            /\ SinkCalled("Errorf", i)
            /\ ~SinkCalled("FailNow", i)
            /\ GoesOnAfter(i)

C2_Witness ==
    \E i \in 1..Len(activities) :
        FailedWithMode(i, ErrorButContinue) /\ Performed(i + 1)

\* C3: an activity that returned an error and whose FailureMode is Ignore
\* has caused no Errorf and no FailNow on the sink (only Logf), and the loop
\* goes on after it.
C3_IgnoreIsSwallowed ==
    \A i \in 1..Len(activities) :
        FailedWithMode(i, Ignore) =>
            /\ \A ev \in SinkCalls : SinkCalled(ev, i) => ev = "Logf"
            /\ GoesOnAfter(i)

C3_Witness ==
    \E i \in 1..Len(activities) :
        /\ FailedWithMode(i, Ignore)
        /\ SinkCalled("Logf", i)
        /\ Performed(i + 1)
        /\ ~failed

\* C4: when no performed activity of a non-empty list has returned an
\* error, the activities were performed once each in the order given (all of
\* them once the call is over) and the sink got no Errorf and no FailNow.
C4_AllSucceedAllPerformed ==
    (activities # <<>> /\ \A i \in 1..Len(activities) : ~FailedAt(i)) =>
        /\ Len(TopPerforms) = idx
        /\ \A k \in 1..Len(TopPerforms) : TopPerforms[k].pos = k
        /\ pc # "looping" => Len(TopPerforms) = Len(activities)
        /\ pc \in {"looping", "returning"}
        /\ \A k \in 1..Len(trace) : trace[k].ev \notin {"Errorf", "FailNow"}

C4_Witness ==
    /\ pc = "returning"
    /\ Len(activities) >= 3
    /\ \A i \in 1..Len(activities) : Performed(i) /\ ~FailedAt(i)

\* C5: the activities performed in one call are a prefix of the argument
\* list in the order given, none twice and none skipped, and an activity is
\* started only after the PerformAs of the one before it has returned.
C5_PerformedIsAPrefixInOrder ==
    /\ Len(TopPerforms) <= Len(activities)
    /\ \A k \in 1..Len(TopPerforms) : TopPerforms[k].pos = k
    /\ \A n \in 1..Len(trace) :
        (IsTop(trace[n], "PerformAs") /\ trace[n].pos > 1) =>
            \E r \in 1..(n - 1) :
                IsTop(trace[r], "Return") /\ trace[r].pos = trace[n].pos - 1

\* a call that stopped after two activities of a longer list
C5_Witness ==
    /\ pc \in {"returning", "unwinding"}
    /\ Len(TopPerforms) = 2
    /\ Len(activities) > 2

\* C6: FailNow is called in a call exactly when an activity whose
\* FailureMode is FailFast has returned an error; it is called once, right
\* after the Errorf for that activity, and nothing follows it in the call.
C6_FailNowOnlyForFailFast ==
    LET fn == {k \in 1..Len(trace) : trace[k].ev = "FailNow"}
    IN /\ (fn # {}) <=> (\E i \in 1..Len(activities) : FailedWithMode(i, FailFast))
       /\ Cardinality(fn) <= 1
       /\ \A k \in fn :
            /\ k = Len(trace)
            /\ k > 1
            /\ trace[k - 1].ev = "Errorf"
            /\ trace[k - 1].pos = trace[k].pos
            /\ FailedWithMode(trace[k].pos, FailFast)

C6_Witness ==
    \E k \in 1..Len(trace) :
        /\ trace[k].ev = "FailNow"
        /\ trace[k].pos > 1
        /\ \E i \in 1..Len(activities) : FailedWithMode(i, ErrorButContinue)

\* C7: whenever an activity performed by AttemptsTo has returned an error
\* and its FailureMode method returns anything other than Ignore, the sink
\* has received an Errorf for that activity.
C7_NoErrorDroppedUnlessIgnore ==
    \A i \in 1..Len(activities) :
        (FailedAt(i) /\ FailureMode(activities[i]) # Ignore) => SinkCalled("Errorf", i)

\* C8: the status Shutdown gives to OnTestFinish is StatusFailed exactly when
\* some activity performed in the AttemptsTo calls before it, with
\* FailureMode FailFast or ErrorButContinue, returned an error.
C8_StatusFailedIffReportableFailure ==
    [][Len(reported') > Len(reported) =>
        LET result == reported'[Len(reported')]
        IN /\ result.ev = "OnTestFinish"
           /\ (result.status = StatusFailed) <=> reportable
           /\ result.status \in {StatusFailed, StatusPassed}]_vars

\* the reporter was told the test failed, and this after the failing call
\* had returned
C8_Witness ==
    /\ pc = "idle"
    /\ trace = <<>>
    /\ reported # <<>>
    /\ reported[Len(reported)].ev = "OnTestFinish"
    /\ reported[Len(reported)].status = StatusFailed

(* C9 is read off the trace of the task at position p *)
SubPerformed(p, j) ==
    \E k \in 1..Len(trace) :
        trace[k].ev = "PerformAs" /\ trace[k].pos = p /\ trace[k].sub = j

SubReturned(p, j, err) ==
    \E k \in 1..Len(trace) :
        trace[k].ev = "Return" /\ trace[k].pos = p /\ trace[k].sub = j
            /\ trace[k].val = err

SubFailedAt(p, j) == j > 0 /\ \E k \in 1..Len(trace) :
    trace[k].ev = "Return" /\ trace[k].pos = p /\ trace[k].sub = j /\ trace[k].val # Nil

\* C9: when the sub-activity at position j of a task has returned an error,
\* whatever FailureMode that sub-activity declares, no sub-activity after j
\* is performed and the PerformAs of the task returns a non-nil error that
\* wraps the error of the sub-activity.
C9_TaskIsFailFastInside ==
    \A p \in 1..Len(activities) :
        activities[p].kind = "task" =>
            \A j \in 1..Len(activities[p].subs) :
                SubFailedAt(p, j) =>
                    /\ \A j2 \in (j + 1)..Len(activities[p].subs) : ~SubPerformed(p, j2)
                    /\ \E err \in {trace[k].val :
                                    k \in {n \in 1..Len(trace) : trace[n].ev = "Return"}} :
                        /\ err # Nil
                        /\ SubReturned(p, 0, err)
                        /\ Unwrap(err) # Nil
                        /\ SubReturned(p, j, Unwrap(err))

\* a task whose first sub-activity declares Ignore and failed, with another
\* sub-activity after it
C9_Witness ==
    /\ activities # <<>>
    /\ activities[1].kind = "task"
    /\ Len(activities[1].subs) = 2
    /\ FailureMode(activities[1].subs[1]) = Ignore
    /\ SubFailedAt(1, 1)

Evaluations == SelectSeq(trace, LAMBDA e : e.ev = "Evaluate")

HeldOfType(t) == {k \in 1..Len(abilities) : abilities[k].type = t.type}

\* C12: after any sequence of WhoCan calls, AbilityTo(t) returns the
\* missing-ability error and no ability if and only if the actor holds no
\* ability of the concrete type of t, and it never returns an ability of
\* another concrete type.
C12_MissingIffNoneOfThatType ==
    call.op = "AbilityTo" =>
        /\ (returned.err # Nil /\ returned.ability = NilAbility)
              <=> HeldOfType(call.abilityType) = {}
        /\ returned.err = Nil =>
              returned.ability.type = call.abilityType.type

\* C13: when the actor holds several abilities of the requested concrete
\* type, AbilityTo returns the one that was added first.
C13_FirstAddedOfThatType ==
    (call.op = "AbilityTo" /\ Cardinality(HeldOfType(call.abilityType)) >= 2) =>
        LET first == CHOOSE k \in HeldOfType(call.abilityType) :
                        \A n \in HeldOfType(call.abilityType) : k <= n
        IN returned = [ability |-> abilities[first], err |-> Nil]

\* C14: whatever is called on the actor, the ability list changes only in
\* a WhoCan call, and then by getting the arguments of the call appended at
\* its end in argument order: what was in the list stays where it was.
C14_OnlyWhoCanAppends ==
    [][abilities' # abilities =>
        /\ call'.op = "WhoCan"
        /\ abilities' = abilities \o call'.abilities
        /\ \A k \in 1..Len(abilities) : abilities'[k] = abilities[k]]_vars

\* a WhoCan call with two arguments on a list that is not empty, followed by
\* an AttemptsTo call that has performed an activity
C14_Witness ==
    /\ call.op = "WhoCan"
    /\ Len(call.abilities) = 2
    /\ call.abilities[1] # call.abilities[2]
    /\ Len(abilities) > 2
    /\ pc = "returning"
    /\ Len(trace) > 0

(* ------------------------------ claim C15 ----------------------------- *)
\* goroutine g is between the lock and the unlock of its call
Inside(g) == goroutines[g].pc # "out"
Appending(g) == goroutines[g].pc = "appending"

\* C15: while a WhoCan call is between its Lock and its Unlock no other
\* call of WhoCan or AbilityTo is inside the lock, and the list an AbilityTo
\* call scans is the list as it was before the first or on the return of
\* some WhoCan call, never a list holding part of a call's arguments.
C15_WhoCanIsExclusive ==
    /\ \A g \in Goroutines :
          Appending(g) =>
              /\ mutex.writer /\ mutex.readers = 0
              /\ \A h \in Goroutines \ {g} : ~Inside(h)
    /\ \A g \in Goroutines :
          goroutines[g].pc = "scanned" => goroutines[g].seen \in boundaries

\* two AbilityTo calls inside the lock at once, one of which has scanned
\* the list that two WhoCan calls made
C15_Witness ==
    \E g \in Goroutines, h \in Goroutines :
        /\ g # h
        /\ goroutines[g].pc = "scanned"
        /\ Len(goroutines[g].seen) = 2
        /\ goroutines[g].seen[1] # goroutines[g].seen[2]
        /\ Cardinality(boundaries) = 3
        /\ goroutines[h].pc = "scanning"
        /\ mutex.readers = 2

(* ------------------------------ claim C16 ----------------------------- *)
\* what a value holds at every depth, whichever array or map object it
\* refers to: its type, whether it is nil, its number, bytes and elements
RECURSIVE Contents(_)
Contents(v) ==
    [type |-> v.type, nil |-> v.ptr = 0, num |-> v.num, str |-> v.str,
     elems |-> [i \in 1..Len(v.elems) |-> Contents(v.elems[i])]]
\* x holds a NaN that is not inside a slice or map that x and y share
RECURSIVE ExposedNaN(_, _)
ExposedNaN(x, y) ==
    /\ ~(x.ptr # 0 /\ x.ptr = y.ptr)
    /\ \/ IsNaN(x)
       \/ \E i \in 1..Len(x.elems) : ExposedNaN(x.elems[i], y.elems[i])
\* deep equality as the Go documentation states it: the same type and the
\* same contents at every depth, a nil slice or map and an empty one apart,
\* a NaN equal to nothing unless inside one and the same slice or map
DeeplyEqual(x, y) == Contents(x) = Contents(y) /\ ~ExposedNaN(x, y)

\* C16: Equals(x).Evaluate(actual) returns nil if and only if actual is
\* deep-equal to x, for primitive, struct, slice and map values.
C16_EqualsIffDeepEqual ==
    (call.op = "Equals" /\ returned.done) =>
        /\ ~returned.panicked
        /\ returned.err = Nil <=> DeeplyEqual(call.actual, call.expected)

\* a struct holding a slice, equal to a struct holding a slice of another
\* array with the same two elements
C16_Witness ==
    /\ call.op = "Equals"
    /\ returned.done
    /\ returned.err = Nil
    /\ call.actual.type = TTagged
    /\ Len(call.actual.elems[1].elems) = 2
    /\ call.actual.elems[1].ptr # call.expected.elems[1].ptr

(* ------------------------------ claim C17 ----------------------------- *)
\* C17: Contains(s).Evaluate(actual) returns an error whenever actual is the
\* empty string, for every substring s, the empty substring included.
C17_EmptyActualAlwaysFails ==
    (call.op \in {"Contains", "AssertionsContains"} /\ returned.done
       /\ call.actual.str = <<>>) =>
        returned.err # Nil /\ ~returned.panicked

(* ------------------------------ claim C18 ----------------------------- *)
\* map m has an entry whose key is the string key
HasKey(m, key) == \E i \in 1..Len(m.elems) : m.elems[i].elems[1] = key

\* C18: ContainsKey(key).Evaluate(actual) returns and never panics,
\* whatever actual is: nil exactly when actual is a map that has key, an
\* error when actual is no map or a map, of any key and value types, that
\* lacks key.
C18_ContainsKeyNeverPanics ==
    (call.op = "ContainsKey" /\ returned.done) =>
        /\ ~returned.panicked
        /\ returned.err = Nil <=>
              (call.actual.type.kind = "map" /\ HasKey(call.actual, call.expected))

(* -------------------------- claims C19 and C20 ------------------------ *)
NumericTypes == {TInt, TInt64, TFloat32, TFloat64}

\* C19: IsGreaterThan(x).Evaluate(actual) and IsLessThan(x).Evaluate(actual)
\* return an error, and neither panic nor return nil, whenever actual or x
\* is of a type other than int, int64, float32 and float64.
C19_OtherTypesAreAnError ==
    (call.op \in {"IsGreaterThan", "IsLessThan"} /\ returned.done
       /\ (call.actual.type \notin NumericTypes
             \/ call.expected.type \notin NumericTypes)) =>
        returned.err # Nil /\ ~returned.panicked

\* a value of the named type MyInt compared with a larger int
C19_Witness ==
    /\ call.op = "IsLessThan"
    /\ returned.done
    /\ call.actual = Number(TMyInt, 0)
    /\ call.expected = Number(TInt, 1)
    /\ returned.err = FmtErrorf("cannot compare actual value",
                                <<"unsupported numeric type">>)

\* the length of a string (its bytes), of a slice (its elements) and of an
\* array (the length of its type)
Length(v) ==
    CASE v.type.kind = "string" -> Len(v.str)
      [] v.type.kind = "array" -> v.type.len
      [] OTHER -> Cardinality(DOMAIN v.elems)

\* C20: ArrayLengthEquals(n).Evaluate(actual) returns nil if and only if
\* the length of actual equals n, for every string, slice and array.
C20_NilIffLengthIsN ==
    (call.op = "ArrayLengthEquals" /\ returned.done
       /\ call.actual.type.kind \in {"string", "slice", "array"}) =>
        /\ ~returned.panicked
        /\ returned.err = Nil <=> Length(call.actual) = call.expected.num

\* a string of a named string type, of the expected length
C20_Witness ==
    /\ call.op = "ArrayLengthEquals"
    /\ returned.done
    /\ returned.err = Nil
    /\ call.actual.type = TMyString
    /\ call.expected.num = MaxLen
(* ------------------------------- C21 ---------------------------------- *)
\* the places of the trace holding the top-level event ev of position i
PlacesOf(ev, i) == {k \in 1..Len(trace) : IsTop(trace[k], ev) /\ trace[k].pos = i}

\* the places of the trace holding a sink call made for position i
SinkPlaces(i) ==
    {k \in 1..Len(trace) : trace[k].ev \in SinkCalls /\ trace[k].pos = i /\ trace[k].sub = 0}

\* C21: with a reporter, every activity performed by AttemptsTo has exactly
\* one OnStepStart, before its PerformAs begins, and exactly one OnStepFinish,
\* after its PerformAs returned (with or without an error) and before every
\* sink call made for it; an activity that is not performed has no step event
C21_OneStepStartAndFinishAroundPerformAs ==
    hasReporter =>
        \A i \in 1..Len(activities) :
            IF Performed(i)
            THEN /\ Cardinality(PlacesOf("OnStepStart", i)) = 1
                 /\ Cardinality(PlacesOf("OnStepFinish", i)) = 1
                 /\ \A s \in PlacesOf("OnStepStart", i), p \in PlacesOf("PerformAs", i) : s < p
                 /\ \A f \in PlacesOf("OnStepFinish", i) :
                        /\ \E r \in PlacesOf("Return", i) : r < f
                        /\ \A k \in SinkPlaces(i) : f < k
            ELSE /\ PlacesOf("OnStepStart", i) = {}
                 /\ PlacesOf("OnStepFinish", i) = {}

\* a call with a reporter in which one activity failed and reached the sink,
\* one succeeded, and one was never performed
C21_Witness ==
    /\ hasReporter
    /\ \E i, j, n \in 1..Len(activities) :
        /\ Performed(i) /\ FailedAt(i) /\ SinkPlaces(i) # {}
        /\ PlacesOf("OnStepFinish", i) # {}
        /\ Performed(j) /\ ~FailedAt(j) /\ PlacesOf("OnStepFinish", j) # {}
        /\ ~Performed(n)

(* ------------------------------- C22 ---------------------------------- *)
\* C22: the result Shutdown passes to OnTestFinish carries the name of the
\* test; its status is StatusFailed and its error "test failed" when the
\* sink's Failed() is true at the time of the call, and its status is
\* StatusPassed and its error nil otherwise
C22_ShutdownReportsNameAndSinkStatus ==
    [][Len(reported') > Len(reported) =>
        LET finish == reported'[Len(reported')]
        IN /\ finish.ev = "OnTestFinish"
           /\ finish.name = testName
           /\ IF failed
              THEN finish.status = StatusFailed /\ finish.err = <<"test failed">>
              ELSE finish.status = StatusPassed /\ finish.err = Nil]_vars

\* Shutdown reported a failed test named FailedTest
C22_Witness ==
    /\ pc = "idle"
    /\ failed
    /\ testName = "FailedTest"
    /\ Len(reported) = 2
    /\ reported[2].ev = "OnTestFinish"
    /\ reported[2].name = "FailedTest"
    /\ reported[2].status = StatusFailed

(* ------------------------------- C23 ---------------------------------- *)
\* what the last call of core.actor.AttemptsTo did
CorePerformed(i) ==
    \E k \in 1..Len(returned.events) :
        IsTop(returned.events[k], "PerformAs") /\ returned.events[k].pos = i
CoreReturnOf(i) ==
    {returned.events[k].val : k \in {n \in 1..Len(returned.events) :
        IsTop(returned.events[n], "Return") /\ returned.events[n].pos = i}}
CoreFailedAt(i) == \E err \in CoreReturnOf(i) : err # Nil

\* C23: in a call of the AttemptsTo of the core actor, an activity that fails
\* with FailureMode ErrorButContinue or Ignore does not stop the call: every
\* activity listed after it is still performed
C23_CoreActorGoesOnAfterNonFatalFailure ==
    call.op = "core.AttemptsTo" =>
        \A i \in 1..Len(call.activities) :
            (CoreFailedAt(i) /\ FailureMode(call.activities[i]) \in {ErrorButContinue, Ignore})
                => \A j \in (i + 1)..Len(call.activities) : CorePerformed(j)

(* ------------------------------- C27 ---------------------------------- *)
\* the positions whose PerformAs returned an error in the last call of
\* core.actor.AttemptsTo
CoreFailures == {i \in 1..Len(call.activities) : CoreFailedAt(i)}

C24_OneActorPerName ==
    /\ \A p \in handedOut, q \in handedOut : p[1] = q[1] => p[2] = q[2]
    /\ \A p \in handedOut : p[2] # NoActor /\ p[2].name = p[1]
    /\ stCreated = Cardinality({n \in ActorNames : stActors[n] # NoActor})

\* a goroutine found no actor of the name, and holds the write lock to
\* create one, after another goroutine created the actor of that name and
\* returned it
C24_Witness ==
    \E g \in Goroutines :
        /\ callers[g].pc = "locked"
        /\ ~callers[g].exists
        /\ stActors[callers[g].name] # NoActor
        /\ <<callers[g].name, stActors[callers[g].name]>> \in handedOut

(* ------------------------------- C25 ---------------------------------- *)
\* C25: for every interleaving of OnStepStart / OnStepFinish pairs from
\* several goroutines, each OnStepFinish removes the entry of activeSteps
\* that its own OnStepStart created, so that once every started step has
\* finished activeSteps is empty and indentLevel is back to 0
C25_FinishRemovesItsOwnStep ==
    /\ \A g \in Reporters :
          reporting[g].pc = "removing" =>
              /\ reporting[g].removed
              /\ getStepKey(reporting[g].description, reporting[g].level)
                    = reporting[g].added
    /\ (\A g \in Reporters : reporting[g].pc = "out") =>
          (activeSteps = {} /\ indentLevel = 0)

(* ------------------------------- C26 ---------------------------------- *)
\* the places of the argument list of the call that hold an Ensure: <<i, 0>>
\* for one passed directly, <<i, j>> for sub-activity j of the task at i
EnsureSlots ==
    {<<i, 0>> : i \in {n \in 1..Len(activities) : activities[n].kind = "ensure"}}
    \cup UNION {{<<i, j>> : j \in {m \in 1..Len(activities[i].subs) :
                                    activities[i].subs[m].kind = "ensure"}} :
                i \in {n \in 1..Len(activities) : activities[n].kind = "task"}}
Later(s, t) == s[1] < t[1] \/ (s[1] = t[1] /\ s[2] < t[2])
SlotPerformed(s) ==
    \E k \in 1..Len(trace) :
        trace[k].ev = "PerformAs" /\ trace[k].pos = s[1] /\ trace[k].sub = s[2]
SlotErrors(s) ==
    {trace[k].val : k \in {n \in 1..Len(trace) :
        trace[n].ev = "Return" /\ trace[n].pos = s[1] /\ trace[n].sub = s[2]}} \ {Nil}
\* the sink received, for the activity of the slot, an Errorf with the error
\* of the slot, as it is or wrapped by the task
SlotReported(s) ==
    \E k \in 1..Len(trace), err \in SlotErrors(s) :
        /\ trace[k].ev = "Errorf"
        /\ trace[k].pos = s[1]
        /\ (trace[k].val = err \/ Unwrap(trace[k].val) = err)
\* the call has done all it does
CallOver == pc \in {"returning", "unwinding"}

Greater(a, b) == ~IsNaN(a) /\ ~IsNaN(b) /\ a.num > b.num

\* C28: for operands of the supported numeric types, IsGreaterThan(x) is
\* satisfied exactly when actual > x and IsLessThan(x) exactly when
\* actual < x as mathematical numbers, so that equal values satisfy
\* neither; this for every pair of supported operands, mixed integer and
\* floating-point pairs and int64 values larger than 2^53 included
C28_ComparesAsMathematicalNumbers ==
    (/\ call.op \in {"IsGreaterThan", "IsLessThan"}
     /\ returned.done
     /\ call.actual.type \in NumericTypes
     /\ call.expected.type \in NumericTypes) =>
        /\ ~returned.panicked
        /\ call.op = "IsGreaterThan" =>
              (returned.err = Nil <=> Greater(call.actual, call.expected))
        /\ call.op = "IsLessThan" =>
              (returned.err = Nil <=> Greater(call.expected, call.actual))

(* ------------------------------- C29 ---------------------------------- *)
\* goroutine g returns from ActorCalled in this step
ActorCalledReturns(g) ==
    registering[g].pc \in {"reading", "locked"} /\ registering'[g].pc = "out"

\* C29: in any interleaving of ActorCalled, ForgetActor and ForgetAllActors
\* calls on the registry of package core, ActorCalled(n) returns the actor
\* created by the first ActorCalled(n) that followed the most recent
\* ForgetActor(n) or ForgetAllActors, and when there is none it creates a
\* fresh actor of that name with no abilities; ForgetActor(n) never changes
\* the actor returned for another name.  Calls that overlap are taken in
\* the order in which they hold actorsMutex for the section that decides
\* what they return or forget.
C29_RegistryReturnsTheFirstSinceForgotten ==
    [][/\ \A g \in Registrants :
            ActorCalledReturns(g) =>
                LET n == registering[g].name
                    a == registering'[g].ret
                IN IF coreFirst[n] # 0
                   THEN a = coreFirst[n] /\ coreHeap' = coreHeap
                   ELSE /\ Len(coreHeap') = Len(coreHeap) + 1
                        /\ a = Len(coreHeap')
                        /\ coreHeap'[a] = [name |-> n, abilities |-> <<>>]
                        /\ coreActors'[n] = a
       /\ \A g \in Registrants :
            (registering[g].pc = "forgetting" /\ registering'[g].pc = "out") =>
                /\ coreActors'[registering[g].name] = 0
                /\ \A m \in ActorNames \ {registering[g].name} :
                      coreActors'[m] = coreActors[m]]_vars

\* ActorCalled returned a second actor of a name, without abilities, after
\* the first, which had been given an ability, was forgotten, while the
\* actor of the other name stayed
C29_Witness ==
    \E g \in Registrants, m \in ActorNames :
        /\ registering[g].pc = "out"
        /\ registering[g].ret > 1
        /\ \E old \in 1..Len(coreHeap) :
              /\ old < registering[g].ret
              /\ coreHeap[old].name = coreHeap[registering[g].ret].name
              /\ coreHeap[old].abilities # <<>>
        /\ coreHeap[registering[g].ret].abilities = <<>>
        /\ m # coreHeap[registering[g].ret].name
        /\ coreActors[m] # 0

(* ------------------------------- C30 ---------------------------------- *)
\* the call in progress has reported a step
StepReported ==
    \E k \in 1..Len(trace) : trace[k].ev \in {"OnStepStart", "OnStepFinish"}
TestEventsOf(ev) == {k \in 1..Len(reported) : reported[k].ev = ev}

====
